---- MODULE Spec2Model ----
(***************************************************************************)
(* The eCFR ingestion script (ingestAll and its helpers), the Regulation   *)
(* collection it writes, and the read routes of the backend that serve     *)
(* the collection.                                                         *)
(*                                                                         *)
(* Text is a sequence of characters over a small alphabet:                 *)
(*   "sp" a blank, "nl" a newline, "w" a letter, "dig" a digit,            *)
(*   "dot" a period, "sect" the section mark, "lq"/"rq" the typographic    *)
(*   double quotes, "lt" a chunk of markup.                                *)
(***************************************************************************)
EXTENDS Integers, Sequences, FiniteSets, TLC

\* ---------------------------------------------------------------- bounds
NumUnits == 2      \* titles the catalog knows
MaxRuns == 2       \* runs of the ingestion script
MaxPublish == 1    \* new editions the publisher brings out

Units == 1..NumUnits

\* ------------------------------------------------------------------ text
Chars == {"sp", "nl", "w", "dig", "dot", "sect", "lq", "rq", "lt"}

IsWs(c) == c \in {"sp", "nl"}

RECURSIVE TrimStart(_)
TrimStart(t) ==
  IF t # <<>> /\ IsWs(Head(t)) THEN TrimStart(Tail(t)) ELSE t

RECURSIVE TrimEnd(_)
TrimEnd(t) ==
  IF t # <<>> /\ IsWs(t[Len(t)]) THEN TrimEnd(SubSeq(t, 1, Len(t) - 1)) ELSE t

\* String.prototype.trim
Trim(t) == TrimEnd(TrimStart(t))

\* t.split(/\s+/): the pieces between maximal runs of whitespace; the empty
\* string splits into one empty piece.
RECURSIVE SplitWs(_, _)
SplitWs(t, piece) ==
  IF t = <<>> THEN <<piece>>
  ELSE IF IsWs(Head(t)) THEN <<piece>> \o SplitWs(TrimStart(t), <<>>)
  ELSE SplitWs(Tail(t), Append(piece, Head(t)))

\* pieces.filter(Boolean): the empty string is falsy
FilterBoolean(pieces) == SelectSeq(pieces, LAMBDA p : p # <<>>)

\* content.trim().split(/\s+/).filter(Boolean).length
WordCount(content) == Len(FilterBoolean(SplitWs(Trim(content), <<>>)))

\* the end of the longest run of c-characters of t that starts at i
RECURSIVE RunEnd(_, _, _)
RunEnd(t, i, cs) ==
  IF i <= Len(t) /\ t[i] \in cs THEN RunEnd(t, i + 1, cs) ELSE i

\* (\.\d+)* from position i: the position after the last group
RECURSIVE DotGroups(_, _)
DotGroups(t, i) ==
  IF i + 1 <= Len(t) /\ t[i] = "dot" /\ t[i + 1] = "dig"
  THEN DotGroups(t, RunEnd(t, i + 1, {"dig"}))
  ELSE i

\* the position after a match of /§\s*\d+(\.\d+)*/ at i, or 0 if none
RefMatchEnd(t, i) ==
  IF i <= Len(t) /\ t[i] = "sect"
  THEN LET j == RunEnd(t, i + 1, {"sp", "nl"})
           k == RunEnd(t, j, {"dig"})
       IN IF k > j THEN DotGroups(t, k) ELSE 0
  ELSE 0

\* (content.match(/§\s*\d+(\.\d+)*/g) || []).length
RECURSIVE CountRefs(_, _)
CountRefs(t, i) ==
  IF i > Len(t) THEN 0
  ELSE LET e == RefMatchEnd(t, i)
       IN IF e = 0 THEN CountRefs(t, i + 1) ELSE 1 + CountRefs(t, e)

\* the position after a match of /“[^”]+”/ at i, or 0 if none
DefMatchEnd(t, i) ==
  IF i <= Len(t) /\ t[i] = "lq"
  THEN LET k == RunEnd(t, i + 1, Chars \ {"rq"})
       IN IF k > i + 1 /\ k <= Len(t) /\ t[k] = "rq" THEN k + 1 ELSE 0
  ELSE 0

\* (content.match(/“[^”]+”/g) || []).length
RECURSIVE CountDefs(_, _)
CountDefs(t, i) ==
  IF i > Len(t) THEN 0
  ELSE LET e == DefMatchEnd(t, i)
       IN IF e = 0 THEN CountDefs(t, i + 1) ELSE 1 + CountDefs(t, e)

\* --------------------------------------------------------------- numbers
\* A JavaScript number that is a quotient of two naturals: a reduced
\* fraction, or NaN (0/0), or Infinity (n/0, n > 0).
RECURSIVE Gcd(_, _)
Gcd(a, b) == IF b = 0 THEN a ELSE Gcd(b, a % b)

NaN == [kind |-> "NaN", num |-> 0, den |-> 0]
Infinity == [kind |-> "Infinity", num |-> 1, den |-> 0]

JsDiv(a, b) ==
  IF b = 0 THEN (IF a = 0 THEN NaN ELSE Infinity)
  ELSE LET g == Gcd(a, b)
       IN [kind |-> "finite", num |-> a \div g, den |-> b \div g]

JsTimes(x, n) ==
  IF x.kind = "finite" THEN JsDiv(x.num * n, x.den) ELSE x

IsZero(x) == x.kind = "finite" /\ x.num = 0

PerThousand == 1000

computeRefDensity(content, wordCount) ==
  JsTimes(JsDiv(CountRefs(content, 1), wordCount), PerThousand)

computeDefFreq(content, wordCount) ==
  JsDiv(CountDefs(content, 1), wordCount)

\* crypto.createHash('sha256').update(text).digest('hex'): a digest that
\* differs whenever the text differs, here the text's digits in base 10
CharCode(c) ==
  CASE c = "sp" -> 1 [] c = "nl" -> 2 [] c = "w" -> 3 [] c = "dig" -> 4
    [] c = "dot" -> 5 [] c = "sect" -> 6 [] c = "lq" -> 7 [] c = "rq" -> 8
    [] OTHER -> 9

HashModulus == 99991

RECURSIVE Digest(_, _)
Digest(text, h) ==
  IF text = <<>> THEN h
  ELSE Digest(Tail(text), (h * 10 + CharCode(Head(text))) % HashModulus)

computeChecksum(text) == Digest(text, 0)

\* ------------------------------------------------------------- documents
\* A document the publisher serves: the body text, and what xml2js makes of
\* it (whether it is well-formed XML, its root element, the root's title
\* attribute, its section elements). A section has a label attribute and
\* paragraph elements; xml2js gives a paragraph its text under "_" only
\* when the element carries attributes, else the element is a bare string.
Para(attrs, text) == [attrs |-> attrs, text |-> text]
Section(label, paragraph) == [label |-> label, paragraph |-> paragraph]

NoTitle == <<>>

\* a section labelled "§ 1.1" with the paragraph "This section defines
\* “widget” as any device." and a paragraph without attributes, and an
\* empty section
ScenarioDoc ==
  [raw |-> <<"lt", "sect", "sp", "dig", "dot", "dig", "lt", "w", "lt">>,
   wellFormed |-> TRUE, root |-> "regulation", titleAttr |-> <<"Widgets">>,
   section |-> <<
     Section(<<"sect", "sp", "dig", "dot", "dig">>,
             <<Para(TRUE, <<"w", "sp", "w", "sp", "w", "sp", "lq", "w", "rq",
                            "sp", "w", "sp", "w", "sp", "w", "dot">>),
               Para(FALSE, <<"w", "sp", "w">>)>>),
     Section(<<>>, <<>>) >>]

\* well-formed XML without section nodes: <ECFR>§ 1 text</ECFR>
NoSectionDoc ==
  [raw |-> <<"lt", "sect", "sp", "dig", "sp", "w", "lt">>,
   wellFormed |-> TRUE, root |-> "ECFR", titleAttr |-> NoTitle, section |-> <<>>]

\* a 200 response with an empty body
EmptyDoc ==
  [raw |-> <<>>, wellFormed |-> FALSE, root |-> "", titleAttr |-> NoTitle,
   section |-> <<>>]

\* a body that is not XML
GarbageDoc ==
  [raw |-> <<"w", "sp", "w">>, wellFormed |-> FALSE, root |-> "",
   titleAttr |-> NoTitle, section |-> <<>>]

DocSet == {ScenarioDoc, NoSectionDoc, EmptyDoc, GarbageDoc}

\* parser.parseStringPromise(xml): rejects what is not XML, resolves to null
\* for a blank string, else to the object tree
ParseThrows(xml) == Trim(xml.raw) # <<>> /\ ~xml.wellFormed
ParseIsNull(xml) == Trim(xml.raw) = <<>>

\* result?.regulation?.section || []
SectionNodes(xml) ==
  IF ParseIsNull(xml) \/ xml.root # "regulation" THEN <<>> ELSE xml.section

\* arr.join(sep)
RECURSIVE Join(_, _)
Join(arr, sep) ==
  IF arr = <<>> THEN <<>>
  ELSE IF Len(arr) = 1 THEN arr[1]
  ELSE arr[1] \o sep \o Join(Tail(arr), sep)

\* p._ || ''
ParaText(p) == IF p.attrs THEN p.text ELSE <<>>

\* (label + ' ' + para).trim() of one section
SectionText(sec) ==
  LET label == sec.label
      para == Join([i \in 1..Len(sec.paragraph) |-> ParaText(sec.paragraph[i])],
                   <<"nl">>)
  IN Trim(label \o <<"sp">> \o para)

Sections(xml) ==
  LET nodes == SectionNodes(xml)
  IN [i \in 1..Len(nodes) |-> SectionText(nodes[i])]

\* sections.length ? sections.join('\n\n') : xml
Content(xml) ==
  IF Len(Sections(xml)) # 0 THEN Join(Sections(xml), <<"nl", "nl">>) ELSE xml.raw

\* `Title ${titleNumber}`
AgencyName(titleNumber) == <<"Title", titleNumber>>

\* result?.regulation?.$?.title || `Title ${titleNumber}`
TitleOf(xml, titleNumber) ==
  IF ~ParseIsNull(xml) /\ xml.root = "regulation" /\ xml.titleAttr # NoTitle
  THEN xml.titleAttr ELSE AgencyName(titleNumber)

\* the address, had it named one fixed edition whatever the date looked up
UrlOfFirstEdition(versionDate, titleNumber) == [date |-> 1, title |-> titleNumber]

\* the address of the full-title request: .../full/${versionDate}/title-${titleNumber}.xml
Url(versionDate, titleNumber) == [date |-> versionDate, title |-> titleNumber]

\* new Date(versionDate): a date-only string is read as midnight UTC of that
\* day, in milliseconds (dates are counted in days)
MsPerDay == 86400000
NewDate(versionDate) == versionDate * MsPerDay

\* what fetchTitle returns when nothing throws
Info(titleNumber, versionDate, xml) ==
  [agency |-> AgencyName(titleNumber), title |-> TitleOf(xml, titleNumber),
   versionDate |-> NewDate(versionDate), content |-> Content(xml)]

\* the document ingestAll hands to Regulation.create
Metrics(info) ==
  LET words == WordCount(info.content)
  IN [agency |-> info.agency, title |-> info.title,
      versionDate |-> info.versionDate, wordCount |-> words,
      checksum |-> computeChecksum(info.content),
      refDensity |-> computeRefDensity(info.content, words),
      defFreq |-> computeDefFreq(info.content, words)]
\* ----------------------------------------------------------------- state
VARIABLES
  catalog,      \* the publisher's titles.json: title number -> up_to_date_as_of
  editions,     \* the publisher's documents: title number -> date -> document
  import_in_progress,  \* the publisher's data.meta.import_in_progress
  store,        \* the Regulation collection, in insertion order
  pc,           \* where ingestAll stands
  runs,         \* runs of ingestAll started so far
  TITLES,       \* ingestAll's list of title numbers
  idx,          \* position of the for loop in TITLES
  versionDate,  \* fetchTitle's versionDate
  url,          \* fetchTitle's url
  xml,          \* fetchTitle's xml
  info,         \* ingestAll's info
  metrics,      \* the metrics ingestAll computed from info
  stage,        \* how far each title's pipeline has come in this run
  runStart,     \* the records the store held when this run began
  prevStart,    \* the records the store held when the run before began
  returned,     \* what this run's promise settled with
  response,     \* the last response of the read API
  agencies,     \* the dashboard's agencies state
  page,         \* the dashboard's page state
  searchTerm,   \* the dashboard's searchTerm state
  loading,      \* the dashboard's loading state
  metricsKeys,  \* the names the dashboard's metrics state has an entry for
  fetchAgenciesCalls,  \* the calls of fetchAgencies awaiting their response
  fetchMetricsCalls    \* the calls of fetchMetrics awaiting Promise.all,
                       \* each with the names it requested

vars == <<catalog, editions, import_in_progress, store, pc, runs, TITLES, idx, versionDate, url, xml,
          info, metrics, stage, runStart, prevStart, returned,
          response, agencies, page, searchTerm, loading, metricsKeys,
          fetchAgenciesCalls, fetchMetricsCalls>>

source == <<catalog, editions, import_in_progress>>
locals == <<versionDate, url, xml, info, metrics>>
dash == <<agencies, page, searchTerm, loading, metricsKeys, fetchAgenciesCalls,
          fetchMetricsCalls>>

NoDate == 0
NoUrl == [date |-> NoDate, title |-> 0]
NoDoc == [raw |-> <<>>, wellFormed |-> FALSE, root |-> "none",
          titleAttr |-> NoTitle, section |-> <<>>]
NoInfo == [agency |-> <<>>, title |-> <<>>, versionDate |-> NoDate, content |-> <<>>]
NoMetrics == Metrics(NoInfo)
\* JavaScript values a promise settles with
NotSettled == [type |-> "none"]
Undefined == [type |-> "undefined"]
Error == [type |-> "error"]
NoResponse == [status |-> 0, body |-> <<>>]
\* res.status(500).json({ error: err.message })
ServerError == [status |-> 500, body |-> <<>>]

Init ==
  /\ catalog = [u \in Units |-> 1]
  /\ editions = [u \in Units |-> <<ScenarioDoc>>]
  /\ import_in_progress = TRUE
  /\ store = <<>>
  /\ pc = "idle"
  /\ runs = 0
  /\ TITLES = <<>>
  /\ idx = 0
  /\ versionDate = NoDate
  /\ url = NoUrl
  /\ xml = NoDoc
  /\ info = NoInfo
  /\ metrics = NoMetrics
  /\ stage = [u \in Units |-> "PENDING"]
  /\ runStart = 0
  /\ prevStart = 0
  /\ returned = NotSettled
  /\ response = NoResponse
  /\ agencies = <<>>
  /\ page = 1
  /\ searchTerm = <<>>
  /\ loading = [agencies |-> FALSE, metrics |-> FALSE, history |-> FALSE]
  /\ metricsKeys = {}
  /\ fetchAgenciesCalls = 0
  /\ fetchMetricsCalls = <<>>

\* titlesResp.data.titles.map(t => t.number)
ListTitles(cat) ==
  LET RECURSIVE Upto(_)
      Upto(n) == IF n = 0 THEN <<>> ELSE Append(Upto(n - 1), n)
  IN SelectSeq(Upto(NumUnits), LAMBDA n : n \in DOMAIN cat)

\* getLatestVersionDate: meta.up_to_date_as_of, or NoDate when it throws
getLatestVersionDate(cat, titleNumber) ==
  IF titleNumber \in DOMAIN cat THEN cat[titleNumber] ELSE NoDate

\* ------------------------------------------------------------ the source
Published == LET RECURSIVE Sum(_)
                 Sum(S) == IF S = {} THEN 0
                           ELSE LET u == CHOOSE x \in S : TRUE
                                IN (catalog[u] - 1) + Sum(S \ {u})
             IN Sum(Units)

\* The publisher brings out a new edition of a title: a new document under
\* the next date.
Publish(u) ==
  /\ Published < MaxPublish
  /\ \E d \in DocSet :
       /\ editions' = [editions EXCEPT ![u] = Append(@, d)]
       /\ catalog' = [catalog EXCEPT ![u] = @ + 1]
  /\ UNCHANGED <<import_in_progress, store, pc, runs, TITLES, idx, locals,
                 stage, runStart, prevStart, returned, response, dash>>

\* The publisher's import comes to its end: the current edition of a title,
\* incomplete so far, is replaced under the same date by the complete
\* (well-formed) document.
CompleteImport(u) ==
  /\ import_in_progress
  /\ import_in_progress' = FALSE
  /\ \E d \in {x \in DocSet : x.wellFormed} \ {editions[u][catalog[u]]} :
       editions' = [editions EXCEPT ![u][catalog[u]] = d]
  /\ UNCHANGED <<catalog, store, pc, runs, TITLES, idx, locals, stage,
                 runStart, prevStart, returned, response, dash>>

\* ------------------------------------------------------------- ingestAll
\* ingestAll is called; the titles request resolves or rejects
StartRun ==
  /\ pc \in {"idle", "resolved", "rejected"}
  /\ runs < MaxRuns
  /\ runs' = runs + 1
  /\ runStart' = Len(store)
  /\ prevStart' = runStart
  /\ stage' = [u \in Units |-> "PENDING"]
  /\ idx' = 0
  /\ \/ /\ TITLES' = ListTitles(catalog)
        /\ pc' = "connect"
        /\ returned' = NotSettled
     \/ /\ TITLES' = <<>>
        /\ pc' = "rejected"
        /\ returned' = Error
  /\ UNCHANGED <<source, store, locals, response, dash>>

\* the for loop moves on from position i: the next title, or the clean-up
Advance(i) ==
  /\ idx' = i + 1
  /\ pc' = IF i < Len(TITLES) THEN "version" ELSE "disconnect"
  /\ versionDate' = NoDate
  /\ url' = NoUrl
  /\ xml' = NoDoc
  /\ info' = NoInfo
  /\ metrics' = NoMetrics

\* fetchTitle's catch, had it thrown the error on: the loop is left and the
\* run rejected
ReturnNullRethrows ==
  /\ stage' = [stage EXCEPT ![TITLES[idx]] = "FAILED"]
  /\ pc' = "rejected"
  /\ UNCHANGED <<idx, locals>>

\* fetchTitle's catch, had the loop tried the same title again
ReturnNullRetries ==
  /\ stage' = [stage EXCEPT ![TITLES[idx]] = "FAILED"]
  /\ pc' = "version"
  /\ versionDate' = NoDate
  /\ url' = NoUrl
  /\ xml' = NoDoc
  /\ info' = NoInfo
  /\ metrics' = NoMetrics
  /\ UNCHANGED idx

\* fetchTitle's catch: return null, and ingestAll's `continue`
ReturnNull ==
  /\ stage' = [stage EXCEPT ![TITLES[idx]] = "FAILED"]
  /\ Advance(idx)

\* mongoose.connect resolves or rejects
Connect ==
  /\ pc = "connect"
  /\ \/ /\ Advance(0)
        /\ UNCHANGED returned
     \/ /\ pc' = "rejected"
        /\ returned' = Error
        /\ UNCHANGED <<idx, locals>>
  /\ UNCHANGED <<source, store, runs, TITLES, stage, runStart,
                 prevStart, response, dash>>

\* fetchTitle: await getLatestVersionDate(titleNumber), then the url and the
\* request sent
Version ==
  /\ pc = "version"
  /\ \/ /\ getLatestVersionDate(catalog, TITLES[idx]) # NoDate
        /\ versionDate' = getLatestVersionDate(catalog, TITLES[idx])
        /\ url' = Url(versionDate', TITLES[idx])
        /\ stage' = [stage EXCEPT ![TITLES[idx]] = "VERSIONED"]
        /\ pc' = "fetch"
        /\ UNCHANGED <<idx, xml, info, metrics>>
     \/ ReturnNull
  /\ UNCHANGED <<source, store, runs, TITLES, runStart, prevStart,
                 returned, response, dash>>

\* fetchTitle: await axios.get(url): the publisher answers with the edition
\* the url names, or the request fails
Fetch ==
  /\ pc = "fetch"
  /\ \/ /\ url.title \in DOMAIN editions
        /\ url.date \in 1..Len(editions[url.title])
        /\ xml' = editions[url.title][url.date]
        /\ stage' = [stage EXCEPT ![TITLES[idx]] = "FETCHED"]
        /\ pc' = "parse"
        /\ UNCHANGED <<idx, versionDate, url, info, metrics>>
     \/ ReturnNull
  /\ UNCHANGED <<source, store, runs, TITLES, runStart, prevStart,
                 returned, response, dash>>

\* fetchTitle: await parser.parseStringPromise(xml), the sections, the return
Parse ==
  /\ pc = "parse"
  /\ IF ParseThrows(xml)
     THEN ReturnNull
     ELSE /\ info' = Info(TITLES[idx], versionDate, xml)
          /\ stage' = [stage EXCEPT ![TITLES[idx]] = "EXTRACTED"]
          /\ pc' = "compute"
          /\ UNCHANGED <<idx, versionDate, url, xml, metrics>>
  /\ UNCHANGED <<source, store, runs, TITLES, runStart, prevStart,
                 returned, response, dash>>

\* ingestAll: the word count, the densities and the checksum of info.content,
\* up to the call of Regulation.create
Compute ==
  /\ pc = "compute"
  /\ metrics' = Metrics(info)
  /\ stage' = [stage EXCEPT ![TITLES[idx]] = "COMPUTED"]
  /\ pc' = "write"
  /\ UNCHANGED <<source, store, runs, TITLES, idx, versionDate, url, xml, info,
                 runStart, prevStart, returned, response, dash>>

\* the schema's validation: every path is required (an empty string is
\* missing), and the cast of a Number path fails for NaN
Validates(doc) ==
  /\ doc.agency # <<>> /\ doc.title # <<>>
  /\ doc.versionDate # NoDate
  /\ doc.refDensity.kind # "NaN"
  /\ doc.defFreq.kind # "NaN"

\* the record the collection holds for doc: its paths and a fresh _id
Record(doc, st) ==
  [_id |-> Len(st) + 1, agency |-> doc.agency, title |-> doc.title,
   versionDate |-> doc.versionDate, wordCount |-> doc.wordCount,
   checksum |-> doc.checksum, refDensity |-> doc.refDensity,
   defFreq |-> doc.defFreq]

\* create, had it kept one record per agency (the older ones replaced)
CreateReplacing(st, doc) ==
  Append(SelectSeq(st, LAMBDA r : r.agency # doc.agency), Record(doc, st))

\* create, had it inserted the record twice
CreateTwice(st, doc) ==
  Append(Append(st, Record(doc, st)), Record(doc, Append(st, Record(doc, st))))

\* create, had it skipped a document the collection already holds
CreateDeduplicating(st, doc) ==
  IF \E i \in 1..Len(st) : /\ st[i].agency = doc.agency
                            /\ st[i].versionDate = doc.versionDate
                            /\ st[i].checksum = doc.checksum
  THEN st
  ELSE Append(st, Record(doc, st))

\* Regulation.create(doc) resolves: one record more
Create(st, doc) == Append(st, Record(doc, st))

\* ingestAll: await Regulation.create(...), then the next title; a rejection
\* leaves the loop and rejects ingestAll's promise
Write ==
  /\ pc = "write"
  /\ \/ /\ Validates(metrics)
        /\ store' = Create(store, metrics)
        /\ stage' = [stage EXCEPT ![TITLES[idx]] = "WRITTEN"]
        /\ Advance(idx)
        /\ UNCHANGED returned
     \/ /\ pc' = "rejected"
        /\ returned' = Error
        /\ UNCHANGED <<store, stage, idx, locals>>
  /\ UNCHANGED <<source, runs, TITLES, runStart, prevStart, response, dash>>

\* ingestAll: await mongoose.disconnect(); the promise resolves with no value
Disconnect ==
  /\ pc = "disconnect"
  /\ pc' = "resolved"
  /\ returned' = Undefined
  /\ UNCHANGED <<source, store, runs, TITLES, idx, locals, stage, runStart,
                 prevStart, response, dash>>

\* -------------------------------------------------------------- read API
Agencies == {AgencyName(u) : u \in Units}

\* the positions of the records of an agency
Found(agency) == {i \in 1..Len(store) : store[i].agency = agency}

\* the orders in which a sort by versionDate may return the positions S
SortedByDate(S, ascending) ==
  {p \in [1..Cardinality(S) -> S] :
     /\ \A i, j \in 1..Cardinality(S) : i # j => p[i] # p[j]
     /\ \A i, j \in 1..Cardinality(S) :
          i < j => IF ascending
                   THEN store[p[i]].versionDate <= store[p[j]].versionDate
                   ELSE store[p[i]].versionDate >= store[p[j]].versionDate}

\* Regulation.distinct('agency'), sorted by title number
DistinctAgencies ==
  LET present == {u \in Units : Found(AgencyName(u)) # {}}
      RECURSIVE Sorted(_)
      Sorted(S) == IF S = {} THEN <<>>
                   ELSE LET m == CHOOSE x \in S : \A y \in S : x <= y
                        IN <<AgencyName(m)>> \o Sorted(S \ {m})
  IN Sorted(present)

\* GET /api/agencies
GetAgencies ==
  /\ \/ response' = [status |-> 200, body |-> DistinctAgencies]
     \/ response' = ServerError
  /\ UNCHANGED <<source, store, pc, runs, TITLES, idx, locals, stage, runStart,
                 prevStart, returned, dash>>

\* GET /api/agencies/:agency/metrics
GetMetrics(agency) ==
  /\ \/ IF Found(agency) = {}
        THEN response' = [status |-> 404, body |-> <<>>]
        ELSE \E p \in SortedByDate(Found(agency), FALSE) :
               response' =
                 [status |-> 200,
                  body |-> [wordCount |-> store[p[1]].wordCount,
                            checksum |-> store[p[1]].checksum,
                            refDensity |-> store[p[1]].refDensity,
                            defFreq |-> store[p[1]].defFreq]]
     \/ response' = ServerError
  /\ UNCHANGED <<source, store, pc, runs, TITLES, idx, locals, stage, runStart,
                 prevStart, returned, dash>>

\* GET /api/agencies/:agency/history
GetHistory(agency) ==
  /\ \/ \E p \in SortedByDate(Found(agency), TRUE) :
          response' =
            [status |-> 200,
             body |-> [i \in 1..Len(p) |->
                         [versionDate |-> store[p[i]].versionDate,
                          wordCount |-> store[p[i]].wordCount]]]
     \/ response' = ServerError
  /\ UNCHANGED <<source, store, pc, runs, TITLES, idx, locals, stage, runStart,
                 prevStart, returned, dash>>

\* ------------------------------------------------------------- dashboard
pageSize == 10

\* in-flight calls of fetchAgencies, and of fetchMetrics, at one time
MaxFetches == 2

\* what the user types into the search box
SearchTerms == {<<>>, <<"TITLE">>, <<"title", 1>>}

\* s.toLowerCase() of a name or a term: its word in lower case, its number as
\* it is
ToLowerCase(s) ==
  [i \in DOMAIN s |->
     IF i = 1 THEN (IF s[i] \in {"Title", "TITLE"} THEN "title" ELSE s[i])
     ELSE s[i]]

\* a.toLowerCase().includes(searchTerm.toLowerCase()); the terms of
\* SearchTerms begin as the names do, so the term is looked for at the start
Includes(a, term) ==
  /\ Len(term) <= Len(a)
  /\ SubSeq(ToLowerCase(a), 1, Len(term)) = ToLowerCase(term)

\* filteredAgencies
FilteredAgencies(list, term) == SelectSeq(list, LAMBDA a : Includes(a, term))

\* arr.slice(from, to)
Slice(arr, from, to) ==
  SubSeq(arr, from + 1, IF to < Len(arr) THEN to ELSE Len(arr))

\* fetchMetrics: paged, the names whose metrics it requests
Paged(list, term, pg) ==
  Slice(FilteredAgencies(list, term), (pg - 1) * pageSize, pg * pageSize)

\* the effect on [agencies, page, searchTerm]: if (agencies.length)
\* fetchMetrics(), which sets loading.metrics and sends its requests
MetricsEffect(list, term, pg, ld) ==
  IF Len(list) # 0
  THEN /\ Len(fetchMetricsCalls) < MaxFetches
       /\ loading' = [ld EXCEPT !.metrics = TRUE]
       /\ fetchMetricsCalls' = Append(fetchMetricsCalls, Paged(list, term, pg))
  ELSE /\ loading' = ld
       /\ UNCHANGED fetchMetricsCalls

\* everything but the dashboard
server == <<source, store, pc, runs, TITLES, idx, locals, stage, runStart,
            prevStart, returned, response>>

\* setInterval(refreshAll, 15_000) fires: fetchAgencies sets loading.agencies
\* and sends its request
Refresh ==
  /\ fetchAgenciesCalls < MaxFetches
  /\ fetchAgenciesCalls' = fetchAgenciesCalls + 1
  /\ loading' = [loading EXCEPT !.agencies = TRUE]
  /\ UNCHANGED <<server, agencies, page, searchTerm, metricsKeys,
                 fetchMetricsCalls>>

\* fetchAgencies: the response is there: setAgencies(list), loading.agencies
\* cleared, and the effect on the new list
AgenciesResolve ==
  /\ fetchAgenciesCalls > 0
  /\ fetchAgenciesCalls' = fetchAgenciesCalls - 1
  /\ agencies' = DistinctAgencies
  /\ MetricsEffect(agencies', searchTerm, page,
                   [loading EXCEPT !.agencies = FALSE])
  /\ UNCHANGED <<server, page, searchTerm, metricsKeys>>

\* fetchAgencies: the request fails and the call ends in a rejection
AgenciesReject ==
  /\ fetchAgenciesCalls > 0
  /\ fetchAgenciesCalls' = fetchAgenciesCalls - 1
  /\ UNCHANGED <<server, agencies, page, searchTerm, loading, metricsKeys,
                 fetchMetricsCalls>>

\* the search box's onChange: setSearchTerm, setPage(1), and the effect
SearchChange(term) ==
  /\ term # searchTerm
  /\ searchTerm' = term
  /\ page' = 1
  /\ MetricsEffect(agencies, term, 1, loading)
  /\ UNCHANGED <<server, agencies, metricsKeys, fetchAgenciesCalls>>

\* the calls in flight but the k-th
Without(calls, k) == SubSeq(calls, 1, k - 1) \o SubSeq(calls, k + 1, Len(calls))

\* fetchMetrics, the k-th call in flight: Promise.all resolves, setMetrics
\* merges the pairs and loading.metrics is cleared
MetricsResolve(k) ==
  /\ k \in 1..Len(fetchMetricsCalls)
  /\ metricsKeys' = metricsKeys \cup
                      {fetchMetricsCalls[k][i] : i \in 1..Len(fetchMetricsCalls[k])}
  /\ loading' = [loading EXCEPT !.metrics = FALSE]
  /\ fetchMetricsCalls' = Without(fetchMetricsCalls, k)
  /\ UNCHANGED <<server, agencies, page, searchTerm, fetchAgenciesCalls>>

\* fetchMetrics, the k-th call in flight: one of its requests fails,
\* Promise.all rejects and the call ends before it clears loading.metrics
MetricsReject(k) ==
  /\ k \in 1..Len(fetchMetricsCalls)
  /\ fetchMetricsCalls[k] # <<>>
  /\ fetchMetricsCalls' = Without(fetchMetricsCalls, k)
  /\ UNCHANGED <<server, agencies, page, searchTerm, loading, metricsKeys,
                 fetchAgenciesCalls>>

\* --------------------------------------------------------- specification
\* the steps of the ingestion script
Ingest ==
  \/ StartRun
  \/ Connect
  \/ Version
  \/ Fetch
  \/ Parse
  \/ Compute
  \/ Write
  \/ Disconnect

\* the requests the backend serves
Serve ==
  \/ GetAgencies
  \/ \E a \in Agencies : GetMetrics(a)
  \/ \E a \in Agencies : GetHistory(a)

\* the ingestion script against a publisher that brings out new editions
Next ==
  \/ \E u \in Units : Publish(u)
  \/ Ingest

Spec == Init /\ [][Next]_vars

\* the ingestion script and the backend on one collection
NextApi ==
  \/ Ingest
  \/ Serve

SpecApi == Init /\ [][NextApi]_vars

\* the ingestion script and the metrics route on one collection, the
\* publisher's import ending meanwhile
NextImport ==
  \/ \E u \in Units : CompleteImport(u)
  \/ Ingest
  \/ \E a \in Agencies : GetMetrics(a)

SpecImport == Init /\ [][NextImport]_vars

\* the collection after a run that wrote the first n titles
RECURSIVE Ingested(_)
Ingested(n) ==
  IF n = 0 THEN <<>>
  ELSE Create(Ingested(n - 1), Metrics(Info(n, 1, ScenarioDoc)))

\* the dashboard mounts on a collection that one run has written: the mount
\* effect has called refreshAll, the list is empty still
InitDash ==
  /\ catalog = [u \in Units |-> 1]
  /\ editions = [u \in Units |-> <<ScenarioDoc>>]
  /\ import_in_progress = TRUE
  /\ store = Ingested(NumUnits)
  /\ pc = "resolved"
  /\ runs = 1
  /\ TITLES = ListTitles(catalog)
  /\ idx = NumUnits + 1
  /\ versionDate = NoDate
  /\ url = NoUrl
  /\ xml = NoDoc
  /\ info = NoInfo
  /\ metrics = NoMetrics
  /\ stage = [u \in Units |-> "WRITTEN"]
  /\ runStart = 0
  /\ prevStart = 0
  /\ returned = Undefined
  /\ response = NoResponse
  /\ agencies = <<>>
  /\ page = 1
  /\ searchTerm = <<>>
  /\ loading = [agencies |-> TRUE, metrics |-> FALSE, history |-> FALSE]
  /\ metricsKeys = {}
  /\ fetchAgenciesCalls = 1
  /\ fetchMetricsCalls = <<>>

\* the dashboard's timer, its search box and its requests settling
NextDash ==
  \/ Refresh
  \/ AgenciesResolve
  \/ AgenciesReject
  \/ \E term \in SearchTerms : SearchChange(term)
  \/ \E k \in 1..MaxFetches : MetricsResolve(k)
  \/ \E k \in 1..MaxFetches : MetricsReject(k)

SpecDash == InitDash /\ [][NextDash]_vars

\* ---------------------------------------------------------------- claims
\* the positions of the records this run wrote, and the run before it
ThisRun == (runStart + 1)..Len(store)
PrevRun == (prevStart + 1)..runStart

\* the records this run wrote for title u
SnapshotsOf(u) == {i \in ThisRun : store[i].agency = AgencyName(u)}

Listed == {TITLES[i] : i \in 1..Len(TITLES)}

\* C1: a title whose fetchTitle failed (version lookup, request or parse)
\* ends FAILED without a record and the loop has moved on past it; a run that
\* resolves has written exactly one record for every title that did not fail.
C1_FetchFailureIsolated ==
  /\ \A i \in 1..Len(TITLES) :
       stage[TITLES[i]] = "FAILED" => SnapshotsOf(TITLES[i]) = {} /\ idx > i
  /\ pc = "resolved" =>
       /\ \A u \in Listed :
            stage[u] # "FAILED" => Cardinality(SnapshotsOf(u)) = 1
       /\ Len(store) - runStart = Cardinality({u \in Listed : stage[u] # "FAILED"})

\* a run over the first editions (all well-formed) resolved: an earlier title
\* failed in the version lookup or the request, a later one was written
C1_Witness ==
  /\ pc = "resolved"
  /\ \A u \in Units : catalog[u] = 1
  /\ \E i, j \in 1..Len(TITLES) :
       /\ i < j
       /\ stage[TITLES[i]] = "FAILED"
       /\ stage[TITLES[j]] = "WRITTEN"
       /\ SnapshotsOf(TITLES[j]) # {}

\* C2: when the store rejects the insert of a (valid) document, the failure
\* is caught at the title's boundary: the title is recorded as failed and the
\* loop goes on, so no title rests at COMPUTED once its write has settled.
C2_WriteFailureCaught ==
  \A u \in Units :
    (stage[u] = "COMPUTED" /\ Validates(metrics)) => pc = "write"

\* C3: when the word count is 0 both densities are exactly 0, in the metrics
\* computed and in every record stored.
C3_ZeroWordsZeroDensity ==
  /\ (pc = "write" /\ metrics.wordCount = 0) =>
       IsZero(metrics.refDensity) /\ IsZero(metrics.defFreq)
  /\ \A i \in 1..Len(store) :
       store[i].wordCount = 0 =>
         IsZero(store[i].refDensity) /\ IsZero(store[i].defFreq)

\* C4: once the loop over the titles has begun, a run that ends ends resolved,
\* with every listed title WRITTEN or FAILED.
C4_RunCompletes ==
  (pc \in {"resolved", "rejected"} /\ idx >= 1) =>
    /\ pc = "resolved"
    /\ \A u \in Listed : stage[u] \in {"WRITTEN", "FAILED"}

\* C5: a resolved run returns a report that names every listed title once:
\* under succeeded if its record was written, else under failed.
C5_RunReport ==
  pc = "resolved" =>
    /\ returned.type = "object"
    /\ returned.succeeded = {u \in Listed : SnapshotsOf(u) # {}}
    /\ returned.failed = {u \in Listed : SnapshotsOf(u) = {}}

\* C6: every step of the ingestion script and of the read routes leaves the
\* records the collection holds in place and unchanged; the only change is one
\* record more at the end.
C6_AppendOnly ==
  [][ /\ Len(store') >= Len(store)
      /\ SubSeq(store', 1, Len(store)) = store
      /\ Len(store') <= Len(store) + 1 ]_vars

\* the read routes answered from a collection that two runs have written to
C6_Witness ==
  /\ runs = 2
  /\ Len(store) >= 2
  /\ store[1].agency = store[Len(store)].agency
  /\ response.status = 200

\* C7: within a run a title has at most one record, and has one exactly when
\* its pipeline came through every stage to WRITTEN; a record enters the
\* collection only in the step that ends the pipeline of a title at COMPUTED,
\* and it is the record of the metrics of the edition fetched.
C7_OneSnapshotPerUnit ==
  [][ /\ \A u \in Units :
           /\ Cardinality(SnapshotsOf(u)') <= 1
           /\ Cardinality(SnapshotsOf(u)') = 1 <=> stage'[u] = "WRITTEN"
      /\ store' # store =>
           /\ pc = "write"
           /\ stage[TITLES[idx]] = "COMPUTED"
           /\ stage'[TITLES[idx]] = "WRITTEN"
           /\ xml = editions[TITLES[idx]][versionDate]
           /\ store' = Append(store,
                              Record(Metrics(Info(TITLES[idx], versionDate, xml)),
                                     store)) ]_vars

\* a second run resolved with one title written (its one record of this run
\* beside the one of the first run) and another title failed
C7_Witness ==
  /\ pc = "resolved"
  /\ runs = 2
  /\ \E u, v \in Units :
       /\ stage[u] = "WRITTEN"
       /\ Cardinality(SnapshotsOf(u)) = 1
       /\ Cardinality(Found(AgencyName(u))) = 2
       /\ stage[v] = "FAILED"
       /\ SnapshotsOf(v) = {}

SameMetrics(a, b) ==
  /\ a.checksum = b.checksum
  /\ a.wordCount = b.wordCount
  /\ a.refDensity = b.refDensity
  /\ a.defFreq = b.defFreq
  /\ a.versionDate = b.versionDate

\* C8: when a run writes a title that the run before wrote too, and the
\* publisher has brought out no edition of it since, the collection holds both
\* records, with equal checksum, word count, densities and date and with
\* different _id.
C8_RerunDuplicates ==
  \A u \in Units : \A i \in PrevRun :
    ( /\ store[i].agency = AgencyName(u)
      /\ stage[u] = "WRITTEN"
      /\ NewDate(catalog[u]) = store[i].versionDate )
    => \E j \in ThisRun :
         /\ store[j].agency = AgencyName(u)
         /\ SameMetrics(store[i], store[j])
         /\ store[i]._id # store[j]._id

\* two runs over an unchanged source resolved and wrote the same title
C8_Witness ==
  /\ pc = "resolved"
  /\ runs >= 2
  /\ \A u \in Units : catalog[u] = 1
  /\ \E i \in PrevRun : \E j \in ThisRun :
       /\ store[i].agency = store[j].agency
       /\ store[i]._id # store[j]._id

\* C9: a request that resolves with an empty body fails the title at the
\* fetch: no title goes on to parsing, computing or writing with an empty body.
C9_EmptyBodyFailsFetch ==
  pc \in {"parse", "compute", "write"} => xml.raw # <<>>

\* the DegradedExtraction flag of a value: absent counts as not set
DegradedFlag(r) == IF "degraded" \in DOMAIN r THEN r.degraded ELSE FALSE

\* C10: when a document that parses has no section nodes (the raw document
\* is the content), what fetchTitle returns and what is handed to Regulation.create
\* carry the DegradedExtraction flag, and carry it only then.
C10_DegradedFlagged ==
  /\ (pc = "compute" /\ ~ParseIsNull(xml)) =>
       (DegradedFlag(info) <=> Len(Sections(xml)) = 0)
  /\ (pc = "write" /\ ~ParseIsNull(xml)) =>
       (DegradedFlag(Record(metrics, store)) <=> Len(Sections(xml)) = 0)

\* the day a stored Date falls on (UTC), as toISOString() prints it
DateOf(date) == date \div MsPerDay

\* C11: the date looked up is the marker the catalog holds for the title at
\* the lookup, the request names that date and that title and is answered with
\* that edition, the date stays the pipeline's date up to the write, and the
\* record written carries that day, whatever the publisher brings out meanwhile.
C11_DateOfRequestStored ==
  [][ /\ (pc = "version" /\ pc' = "fetch") =>
           /\ versionDate' = catalog[TITLES[idx]]
           /\ url' = [date |-> versionDate', title |-> TITLES[idx]]
      /\ pc' \in {"fetch", "parse", "compute", "write"} =>
           /\ url'.date = versionDate' /\ url'.title = TITLES'[idx']
           /\ pc \in {"fetch", "parse", "compute"} =>
                versionDate' = versionDate /\ url' = url
      /\ (pc = "fetch" /\ pc' = "parse") =>
           xml' = editions[url.title][url.date]
      /\ store' # store =>
           /\ DateOf(store'[Len(store')].versionDate) = url.date
           /\ store'[Len(store')].agency = AgencyName(url.title) ]_vars

\* the publisher brought out a second, different edition of a title after the
\* lookup of its date: the request was answered with the first edition and the
\* document on its way to Regulation.create carries day 1, not day 2
C11_Witness ==
  /\ pc = "write"
  /\ Validates(metrics)
  /\ versionDate = 1
  /\ catalog[TITLES[idx]] = 2
  /\ editions[TITLES[idx]][2] # editions[TITLES[idx]][1]
  /\ xml = editions[TITLES[idx]][1]
  /\ DateOf(metrics.versionDate) = 1

\* C12: a run that ends rejected was rejected by the titles request: no title
\* was known, the loop had not begun and the run wrote no record.  No failure
\* after the list is known rejects the run.
C12_OnlyListingAborts ==
  pc = "rejected" =>
    /\ TITLES = <<>>
    /\ idx = 0
    /\ Len(store) = runStart

\* the record of an agency written last
LastWritten(agency) ==
  store[CHOOSE i \in Found(agency) : \A j \in Found(agency) : j <= i]

\* C13: GET /api/agencies/:agency/metrics answers 404 for an agency without a
\* record, and else with the word count, checksum and densities of the record
\* of that agency written last (the store answering at all).
C13_MetricsOfLastWritten ==
  [][ \A a \in Agencies :
        (GetMetrics(a) /\ response' # ServerError) =>
          IF Found(a) = {}
          THEN response'.status = 404
          ELSE /\ response'.status = 200
               /\ response'.body =
                    [wordCount |-> LastWritten(a).wordCount,
                     checksum |-> LastWritten(a).checksum,
                     refDensity |-> LastWritten(a).refDensity,
                     defFreq |-> LastWritten(a).defFreq] ]_vars

\* the place of a stage in the pipeline of a title
StageRank(st) ==
  CASE st = "PENDING" -> 0
    [] st = "VERSIONED" -> 1
    [] st = "FETCHED" -> 2
    [] st = "EXTRACTED" -> 3
    [] st = "COMPUTED" -> 4
    [] st = "WRITTEN" -> 5
    [] OTHER -> 6

\* C14: within a run every step leaves the stage of a title as it is, moves it
\* to the next stage of PENDING, VERSIONED, FETCHED, EXTRACTED, COMPUTED,
\* WRITTEN, or fails it from a stage before WRITTEN; a title at WRITTEN or
\* FAILED stays there.  A stage is entered with the result of the stage before
\* it at hand, and only the title the loop stands at is between PENDING and
\* WRITTEN.
C14_StagesInOrder ==
  [][ /\ runs' = runs =>
           \A u \in Units :
             \/ stage'[u] = stage[u]
             \/ /\ StageRank(stage[u]) < 5
                /\ StageRank(stage'[u]) = StageRank(stage[u]) + 1
             \/ /\ StageRank(stage[u]) < 5
                /\ stage'[u] = "FAILED"
      /\ \A u \in Units :
           StageRank(stage'[u]) \in 1..4 =>
             /\ idx' \in 1..Len(TITLES') /\ u = TITLES'[idx']
             /\ versionDate' # NoDate
             /\ StageRank(stage'[u]) >= 2 => xml' # NoDoc
             /\ StageRank(stage'[u]) >= 3 => info' # NoInfo
             /\ StageRank(stage'[u]) >= 4 => metrics' = Metrics(info') ]_vars

\* the first run has come to the end of its loop with one title gone through
\* every stage to WRITTEN and another failed on the way
C14_Witness ==
  /\ pc = "disconnect"
  /\ runs = 1
  /\ \E u, v \in Units :
       /\ stage[u] = "WRITTEN" /\ Cardinality(SnapshotsOf(u)) = 1
       /\ stage[v] = "FAILED"
       /\ \A w \in Units : stage[w] \in {"WRITTEN", "FAILED"}

\* C15: whenever loading.metrics is false, no call of fetchMetrics has a
\* request in flight.
C15_NotLoadingNothingInFlight ==
  loading.metrics = FALSE =>
    \A k \in 1..Len(fetchMetricsCalls) : fetchMetricsCalls[k] = <<>>

====
